---- MODULE Spec2Model ----
(***************************************************************************)
(* A model of the geo package: the Polygon type (polygon.go) with its      *)
(* ray-casting containment test, and the Point type with its projection    *)
(* and its binary and JSON codecs.                                         *)
(*                                                                         *)
(* The package has no concurrency; every exported function is one atomic   *)
(* action.  The state is what a caller of the package can hold: slices     *)
(* (headers over backing arrays of the heap), one Polygon, one receiver    *)
(* Point, and the record of the last call with its results.                *)
(***************************************************************************)
EXTENDS Integers, Sequences, FiniteSets, TLC

VARIABLES
    heap,    \* backing arrays of []Point slices: array id -> sequence of Point
    poly,    \* the Polygon struct: [points |-> slice header]
    held,    \* the slice headers the caller holds (passed in, or returned by Points)
    built,   \* history: the polygon's points as they were when NewPolygon returned
    writes,  \* history: number of element writes the caller has made
    p,       \* the receiver Point of the Point methods
    last     \* record of the last call: operation, arguments, results

vars == <<heap, poly, held, built, writes, p, last>>

(***************************************************************************)
(* Bounds of the model.                                                    *)
(***************************************************************************)
MaxLat == 1        \* polygon vertices and query points have Lat in 0..MaxLat
MaxLon == 2        \* ... and Lon in 0..MaxLon
MaxPoints == 3     \* a polygon has 0..MaxPoints vertices
MaxWrites == 1     \* element writes a caller makes through a held slice

Grid == [Lat : 0..MaxLat, Lon : 0..MaxLon]

RECURSIVE SeqsUpTo(_, _)
SeqsUpTo(S, n) ==
    IF n = 0 THEN {<<>>}
    ELSE LET shorter == SeqsUpTo(S, n - 1)
         IN  shorter \cup {Append(s, x) : s \in {t \in shorter : Len(t) = n - 1}, x \in S}

Origin == [Lat |-> 0, Lon |-> 0]

(***************************************************************************)
(* polygon.go                                                              *)
(***************************************************************************)

\* A slice header: the backing array it points into and its length.
Slice(array, len) == [array |-> array, len |-> len]

\* The elements a slice header denotes in the current heap.
Elems(h, s) == SubSeq(h[s.array], 1, s.len)

\* NewPolygon stores the slice header it is given.
NewPolygon(points) == [points |-> points]

\* Points returns the stored slice header.
Points(pg) == pg.points

\* The polygon's points as its methods read them.
PolygonPoints == Elems(heap, poly.points)

\* Mutant of IsClosed: the threshold is off by one.
IsClosedTwo(points) == ~(Len(points) < 2)

\* IsClosed: false when len(p.points) < 3, true otherwise.
IsClosed(points) == ~(Len(points) < 3)

\* Go index i (0-based) of a slice.
At(points, i) == points[i + 1]

\* Mutant of the left operand of PNPoly: >= for b.
PNPolyStraddlesGeq(pt, a, b) == (a.Lon > pt.Lon) # (b.Lon >= pt.Lon)

\* Left operand of && in PNPoly.
PNPolyStraddles(pt, a, b) == (a.Lon > pt.Lon) # (b.Lon > pt.Lon)

\* The right operand of && is evaluated only when the left one is true.
PNPolyDivides(pt, a, b) == PNPolyStraddles(pt, a, b)

\* Right operand of && in PNPoly:
\*   p.Lat < (b.Lat-a.Lat)*(p.Lon-a.Lon)/(b.Lon-a.Lon) + a.Lat
\* On the integer coordinates of the model the float64 comparison agrees with
\* the exact one: the quotient is either an integer (computed exactly) or at
\* least 1/MaxLon away from every integer.  A zero divisor is +0
\* (x - x), so the quotient is +Inf, -Inf or NaN and only +Inf compares above.
PNPolyBelow(pt, a, b) ==
    LET num == (b.Lat - a.Lat) * (pt.Lon - a.Lon)
        den == b.Lon - a.Lon
        lhs == pt.Lat - a.Lat
    IN  IF den = 0 THEN num > 0
        ELSE IF den > 0 THEN lhs * den < num
        ELSE lhs * den > num

PNPoly(pt, a, b) == PNPolyStraddles(pt, a, b) /\ PNPolyBelow(pt, a, b)

\* Mutant of ContainsEdges: the closing edge (last, first) is left out.
ContainsEdgesOpen(points) ==
    [i \in 1..(Len(points) - 1) |-> <<At(points, i - 1), At(points, i)>>]

\* The edges Contains tests, in order: (last, first), then (i-1, i) for i = 1..len-1.
ContainsEdges(points) ==
    LET n == Len(points)
    IN  <<<<At(points, n - 1), At(points, 0)>>>>
            \o [i \in 1..(n - 1) |-> <<At(points, i - 1), At(points, i)>>]

\* The loop of Contains over the edges from position k on.
RECURSIVE ContainsLoop(_, _, _, _)
ContainsLoop(pt, edges, k, contains) ==
    IF k > Len(edges) THEN contains
    ELSE ContainsLoop(pt, edges, k + 1,
                      IF PNPoly(pt, edges[k][1], edges[k][2]) THEN ~contains ELSE contains)

\* Contains: its result and what the evaluation did on the way.
\*   indexed     p.points was indexed (line 42 was reached)
\*   divZero     some edge test divided by b.Lon - a.Lon = 0
\*   vertToggle  some edge with a.Lon = b.Lon tested true
Contains(points, pt) ==
    IF ~IsClosed(points)
    THEN [ret |-> FALSE, indexed |-> FALSE, divZero |-> FALSE, vertToggle |-> FALSE]
    ELSE LET edges == ContainsEdges(points)
             first == PNPoly(pt, edges[1][1], edges[1][2])
         IN  [ret        |-> ContainsLoop(pt, edges, 2, first),
              indexed    |-> TRUE,
              divZero    |-> \E k \in 1..Len(edges) :
                                /\ PNPolyDivides(pt, edges[k][1], edges[k][2])
                                /\ edges[k][2].Lon = edges[k][1].Lon,
              vertToggle |-> \E k \in 1..Len(edges) :
                                /\ edges[k][1].Lon = edges[k][2].Lon
                                /\ PNPoly(pt, edges[k][1], edges[k][2])]

NoCall == [op |-> "none", pt |-> Origin, points |-> <<>>, ret |-> FALSE,
           indexed |-> FALSE, divZero |-> FALSE, vertToggle |-> FALSE]

\* The state after the caller built a slice and NewPolygon returned.
InitPolygonWith(pts) ==
    /\ heap = <<pts>>
    /\ poly = NewPolygon(Slice(1, Len(pts)))
    /\ held = {Slice(1, Len(pts))}
    /\ built = pts
    /\ writes = 0
    /\ p = Origin
    /\ last = NoCall

InitPolygon == \E pts \in SeqsUpTo(Grid, MaxPoints) : InitPolygonWith(pts)

CallIsClosed ==
    /\ last' = [NoCall EXCEPT !.op = "IsClosed", !.points = PolygonPoints,
                              !.ret = IsClosed(PolygonPoints)]
    /\ UNCHANGED <<heap, poly, held, built, writes, p>>

CallContains(pt) ==
    LET r == Contains(PolygonPoints, pt)
    IN  /\ last' = [op |-> "Contains", pt |-> pt, points |-> PolygonPoints,
                    ret |-> r.ret, indexed |-> r.indexed, divZero |-> r.divZero,
                    vertToggle |-> r.vertToggle]
        /\ UNCHANGED <<heap, poly, held, built, writes, p>>

CallPoints ==
    /\ held' = held \cup {Points(poly)}
    /\ last' = [NoCall EXCEPT !.op = "Points", !.points = Elems(heap, Points(poly))]
    /\ UNCHANGED <<heap, poly, built, writes, p>>

\* The caller assigns s[i] = pt through a slice it holds.
CallerWrite(s, i, pt) ==
    /\ writes < MaxWrites
    /\ s \in held
    /\ i \in 0..(s.len - 1)
    /\ heap' = [heap EXCEPT ![s.array][i + 1] = pt]
    /\ writes' = writes + 1
    /\ last' = NoCall
    /\ UNCHANGED <<poly, held, built, p>>

NextPolygon ==
    \/ CallIsClosed
    \/ \E pt \in Grid : CallContains(pt)

SpecPolygon == InitPolygon /\ [][NextPolygon]_vars

NextAlias ==
    \/ CallIsClosed
    \/ \E pt \in Grid : CallContains(pt)
    \/ CallPoints
    \/ \E s \in held, i \in 0..(MaxPoints - 1), pt \in Grid : CallerWrite(s, i, pt)

SpecAlias == InitPolygon /\ [][NextAlias]_vars

(***************************************************************************)
(* Axis-aligned rectangles (the square of the package's documentation):    *)
(* the 4 corners in boundary order, from any corner, in either direction.  *)
(***************************************************************************)
MaxRect == 3       \* rectangle corners have Lat, Lon in 0..MaxRect

RectCorners(lat0, lat1, lon0, lon1) ==
    <<[Lat |-> lat0, Lon |-> lon0], [Lat |-> lat0, Lon |-> lon1],
      [Lat |-> lat1, Lon |-> lon1], [Lat |-> lat1, Lon |-> lon0]>>

Rotate(s, k) == [i \in 1..Len(s) |-> s[((i - 1 + k) % Len(s)) + 1]]
Reverse(s) == [i \in 1..Len(s) |-> s[Len(s) + 1 - i]]

Rectangles ==
    LET proper == {RectCorners(lat0, lat1, lon0, lon1) :
                     lat0 \in 0..(MaxRect - 1), lat1 \in 1..MaxRect,
                     lon0 \in 0..(MaxRect - 1), lon1 \in 1..MaxRect}
        boxes == {r \in proper : r[1].Lat < r[3].Lat /\ r[1].Lon < r[3].Lon}
        turned == {Rotate(r, k) : r \in boxes, k \in 0..3}
    IN  turned \cup {Reverse(r) : r \in turned}

RectQueries == [Lat : (-1)..(MaxRect + 1), Lon : (-1)..(MaxRect + 1)]

InitRect == \E pts \in Rectangles : InitPolygonWith(pts)

NextRect ==
    \/ CallIsClosed
    \/ \E pt \in RectQueries : CallContains(pt)

SpecRect == InitRect /\ [][NextRect]_vars

(***************************************************************************)
(* The binary codec of Point (MarshalBinary, UnmarshalBinary).             *)
(*                                                                         *)
(* Here a float64 is its IEEE-754 bit pattern, math.Float64bits(x), written *)
(* as the 8 bytes of that uint64 from the most significant to the least    *)
(* (the order of the hex literal); a byte is a number in 0..255.           *)
(***************************************************************************)
MaxExtra == 1      \* bytes that may follow the 16 bytes of an encoded Point

F64Zero == <<0, 0, 0, 0, 0, 0, 0, 0>>                  \* 0.0
F64Lat == <<64, 68, 95, 210, 31, 242, 228, 143>>       \* 40.7486  = 0x40445FD21FF2E48F
F64Lon == <<192, 82, 127, 33, 45, 119, 49, 144>>       \* -73.9864 = 0xC0527F212D773190
F64NaN == <<127, 248, 0, 0, 0, 0, 0, 1>>               \* a NaN with a payload

Float64s == {F64Zero, F64Lat, F64Lon, F64NaN}
BinPoints == [Lat : Float64s, Lon : Float64s]

\* binary.LittleEndian.PutUint64: b[i] = byte(v >> (8*i)), least significant first.
PutUint64(v) == [i \in 1..8 |-> v[9 - i]]

\* binary.LittleEndian.Uint64: b[0] | b[1]<<8 | ... | b[7]<<56.
Uint64(b) == [i \in 1..8 |-> b[9 - i]]

\* binary.Write(&buf, binary.LittleEndian, x) for a float64 x, appending to a
\* bytes.Buffer (whose Write never fails).
BinaryWrite(buf, x) == [buf |-> buf \o PutUint64(x), err |-> "nil"]

\* binary.Read(buf, binary.LittleEndian, &x) for a float64 x, from a bytes.Reader
\* at offset off: io.ReadFull of 8 bytes, then the decoding.  The zero value
\* of x is left in place when the read fails.
BinaryRead(data, off) ==
    LET left == Len(data) - off
    IN  IF left = 0 THEN [x |-> F64Zero, off |-> off, err |-> "EOF"]
        ELSE IF left < 8 THEN [x |-> F64Zero, off |-> Len(data), err |-> "unexpected EOF"]
        ELSE [x |-> Uint64(SubSeq(data, off + 1, off + 8)), off |-> off + 8, err |-> "nil"]

\* MarshalBinary: Lat, then Lon.
MarshalBinary(pt) ==
    LET w1 == BinaryWrite(<<>>, pt.Lat)
        w2 == BinaryWrite(w1.buf, pt.Lon)
    IN  IF w1.err # "nil" THEN [bytes |-> <<>>, err |-> "unable to encode lat"]
        ELSE IF w2.err # "nil" THEN [bytes |-> <<>>, err |-> "unable to encode lon"]
        ELSE [bytes |-> w2.buf, err |-> "nil"]

\* Mutant of UnmarshalBinary: the first value read is stored into p.Lat
\* before the second read.
UnmarshalBinaryEager(recv, data) ==
    LET r1 == BinaryRead(data, 0)
        r2 == BinaryRead(data, r1.off)
    IN  IF r1.err # "nil" THEN [p |-> recv, err |-> "binary.Read failed: " \o r1.err]
        ELSE IF r2.err # "nil"
             THEN [p |-> [recv EXCEPT !.Lat = r1.x], err |-> "binary.Read failed: " \o r2.err]
        ELSE [p |-> [Lat |-> r1.x, Lon |-> r2.x], err |-> "nil"]

\* Mutant of UnmarshalBinary: the two fields are stored the wrong way round.
UnmarshalBinarySwapped(recv, data) ==
    LET r1 == BinaryRead(data, 0)
        r2 == BinaryRead(data, r1.off)
    IN  IF r1.err # "nil" THEN [p |-> recv, err |-> "binary.Read failed: " \o r1.err]
        ELSE IF r2.err # "nil" THEN [p |-> recv, err |-> "binary.Read failed: " \o r2.err]
        ELSE [p |-> [Lat |-> r2.x, Lon |-> r1.x], err |-> "nil"]

\* UnmarshalBinary: both values are read into locals; the receiver is
\* assigned only after both reads succeeded.
UnmarshalBinary(recv, data) ==
    LET r1 == BinaryRead(data, 0)
        r2 == BinaryRead(data, r1.off)
    IN  IF r1.err # "nil" THEN [p |-> recv, err |-> "binary.Read failed: " \o r1.err]
        ELSE IF r2.err # "nil" THEN [p |-> recv, err |-> "binary.Read failed: " \o r2.err]
        ELSE [p |-> [Lat |-> r1.x, Lon |-> r2.x], err |-> "nil"]

\* The inputs handed to UnmarshalBinary: an encoded Point, possibly followed
\* by extra bytes, cut at any length.
BinaryInputs ==
    LET whole == {MarshalBinary(q).bytes \o extra :
                     q \in BinPoints, extra \in SeqsUpTo({171}, MaxExtra)}
    IN  UNION {{SubSeq(w, 1, n) : n \in 0..Len(w)} : w \in whole}

NoPointCall == [op |-> "none", data |-> <<>>, err |-> "nil", before |-> Origin]

InitBinary ==
    /\ heap = <<>>
    /\ poly = NewPolygon(Slice(0, 0))
    /\ held = {}
    /\ built = <<>>
    /\ writes = 0
    /\ p \in BinPoints
    /\ last = NoPointCall

CallMarshalBinary ==
    LET r == MarshalBinary(p)
    IN  /\ last' = [op |-> "MarshalBinary", data |-> r.bytes, err |-> r.err, before |-> p]
        /\ UNCHANGED <<heap, poly, held, built, writes, p>>

CallUnmarshalBinary(data) ==
    LET r == UnmarshalBinary(p, data)
    IN  /\ p' = r.p
        /\ last' = [op |-> "UnmarshalBinary", data |-> data, err |-> r.err, before |-> p]
        /\ UNCHANGED <<heap, poly, held, built, writes>>

NextBinary ==
    \/ CallMarshalBinary
    \/ \E data \in BinaryInputs : CallUnmarshalBinary(data)

SpecBinary == InitBinary /\ [][NextBinary]_vars

(***************************************************************************)
(* The JSON codec of Point (MarshalJSON, UnmarshalJSON).                   *)
(*                                                                         *)
(* A byte string is a sequence of one-character strings.  Here a float64   *)
(* is the number it holds, an integer; %v prints it, and the decoder reads *)
(* it, as a plain decimal integer.  The inputs hold the characters of      *)
(* objects, arrays, strings without escapes, integers, true, false, null,  *)
(* the space, and '@' for a byte that starts no JSON value.                *)
(***************************************************************************)
MaxTrail == 1      \* bytes that may follow a complete JSON value

NewPoint(lat, lon) == [Lat |-> lat, Lon |-> lon]

JsonNums == {0, 7, -12}
JsonPoints == {NewPoint(lat, lon) : lat \in JsonNums, lon \in JsonNums}

DigitChars == <<"0", "1", "2", "3", "4", "5", "6", "7", "8", "9">>

RECURSIVE FormatDigits(_)
FormatDigits(n) ==
    IF n < 10 THEN <<DigitChars[n + 1]>>
    ELSE FormatDigits(n \div 10) \o <<DigitChars[(n % 10) + 1]>>

\* %v of a float64 holding an integer: the shortest decimal form.
FormatFloat(x) == IF x < 0 THEN <<"-">> \o FormatDigits(-x) ELSE FormatDigits(x)

Quoted(name) == <<"\"">> \o name \o <<"\"">>
KeyLat == <<"l", "a", "t">>
KeyLon == <<"l", "o", "n">>
KeyExtra == <<"x">>

\* fmt.Sprintf(`{"lat":%v, "lon":%v}`, lat, lon)
Sprintf(lat, lon) ==
    <<"{">> \o Quoted(KeyLat) \o <<":">> \o FormatFloat(lat) \o <<",", " ">>
        \o Quoted(KeyLon) \o <<":">> \o FormatFloat(lon) \o <<"}">>

MarshalJSON(pt) == [bytes |-> Sprintf(pt.Lat, pt.Lon), err |-> "nil"]

(***************************************************************************)
(* encoding/json as UnmarshalJSON uses it: the Decoder reads the first     *)
(* JSON value of the input and stops there, then stores it into a          *)
(* map[string]float64.                                                     *)
(***************************************************************************)
JValue(kind, num, str, mem) == [kind |-> kind, num |-> num, str |-> str, mem |-> mem]
JNull == JValue("null", 0, <<>>, <<>>)

Parsed(val, next) == [err |-> "nil", val |-> val, next |-> next]
Failed(err) == [err |-> err, val |-> JNull, next |-> 0]
SyntaxError == "invalid character"
UnexpectedEOF == "unexpected EOF"

IsDigit(c) == \E d \in 1..10 : DigitChars[d] = c
DigitValue(c) == (CHOOSE d \in 1..10 : DigitChars[d] = c) - 1

RECURSIVE SkipSpace(_, _)
SkipSpace(s, i) == IF i <= Len(s) /\ s[i] = " " THEN SkipSpace(s, i + 1) ELSE i

RECURSIVE ParseDigits(_, _, _)
ParseDigits(s, i, acc) ==
    IF i <= Len(s) /\ IsDigit(s[i]) THEN ParseDigits(s, i + 1, 10 * acc + DigitValue(s[i]))
    ELSE [n |-> acc, next |-> i]

\* An integer literal: -? (0 | [1-9][0-9]*); it ends before the first byte
\* that cannot continue it.
ParseNumber(s, i) ==
    LET neg == s[i] = "-"
        j == IF neg THEN i + 1 ELSE i
    IN  IF j > Len(s) THEN Failed(UnexpectedEOF)
        ELSE IF ~IsDigit(s[j]) THEN Failed(SyntaxError)
        ELSE IF s[j] = "0" THEN Parsed(JValue("number", 0, <<>>, <<>>), j + 1)
        ELSE LET d == ParseDigits(s, j, 0)
             IN  Parsed(JValue("number", IF neg THEN -d.n ELSE d.n, <<>>, <<>>), d.next)

\* true, false, null: the bytes of the word, one by one.
ParseLiteral(s, i, word, val) ==
    LET bad == {k \in 1..Len(word) : i + k - 1 > Len(s) \/ s[i + k - 1] # word[k]}
    IN  IF bad = {} THEN Parsed(val, i + Len(word))
        ELSE LET k == CHOOSE m \in bad : \A o \in bad : m <= o
             IN  IF i + k - 1 > Len(s) THEN Failed(UnexpectedEOF) ELSE Failed(SyntaxError)

\* A string: from the opening quote to the next quote.
ParseString(s, i) ==
    LET closes == {j \in (i + 1)..Len(s) : s[j] = "\""}
    IN  IF closes = {} THEN Failed(UnexpectedEOF)
        ELSE LET j == CHOOSE m \in closes : \A o \in closes : m <= o
             IN  Parsed(JValue("string", 0, SubSeq(s, i + 1, j - 1), <<>>), j + 1)

RECURSIVE ParseValue(_, _), ParseMember(_, _, _), ParseElem(_, _, _)

\* The value that starts at or after position i0.
ParseValue(s, i0) ==
    LET i == SkipSpace(s, i0)
    IN  IF i > Len(s) THEN Failed(UnexpectedEOF)
        ELSE CASE s[i] = "{" ->
                    LET j == SkipSpace(s, i + 1)
                    IN  IF j > Len(s) THEN Failed(UnexpectedEOF)
                        ELSE IF s[j] = "}" THEN Parsed(JValue("object", 0, <<>>, <<>>), j + 1)
                        ELSE ParseMember(s, j, <<>>)
               [] s[i] = "[" ->
                    LET j == SkipSpace(s, i + 1)
                    IN  IF j > Len(s) THEN Failed(UnexpectedEOF)
                        ELSE IF s[j] = "]" THEN Parsed(JValue("array", 0, <<>>, <<>>), j + 1)
                        ELSE ParseElem(s, j, <<>>)
               [] s[i] = "\"" -> ParseString(s, i)
               [] s[i] = "-" \/ IsDigit(s[i]) -> ParseNumber(s, i)
               [] s[i] = "t" -> ParseLiteral(s, i, <<"t", "r", "u", "e">>,
                                             JValue("bool", 0, <<>>, <<>>))
               [] s[i] = "f" -> ParseLiteral(s, i, <<"f", "a", "l", "s", "e">>,
                                             JValue("bool", 0, <<>>, <<>>))
               [] s[i] = "n" -> ParseLiteral(s, i, <<"n", "u", "l", "l">>, JNull)
               [] OTHER -> Failed(SyntaxError)

\* The members of an object from the key at position i on; mem are those read.
ParseMember(s, i, mem) ==
    IF s[i] # "\"" THEN Failed(SyntaxError)
    ELSE LET k == ParseString(s, i)
             c == SkipSpace(s, k.next)
         IN  IF k.err # "nil" THEN Failed(k.err)
             ELSE IF c > Len(s) THEN Failed(UnexpectedEOF)
             ELSE IF s[c] # ":" THEN Failed(SyntaxError)
             ELSE LET v == ParseValue(s, c + 1)
                      e == SkipSpace(s, v.next)
                      all == Append(mem, [key |-> k.val.str, val |-> v.val])
                  IN  IF v.err # "nil" THEN Failed(v.err)
                      ELSE IF e > Len(s) THEN Failed(UnexpectedEOF)
                      ELSE IF s[e] = "}" THEN Parsed(JValue("object", 0, <<>>, all), e + 1)
                      ELSE IF s[e] # "," THEN Failed(SyntaxError)
                      ELSE LET n == SkipSpace(s, e + 1)
                           IN  IF n > Len(s) THEN Failed(UnexpectedEOF)
                               ELSE ParseMember(s, n, all)

\* The elements of an array from the one at position i on.
ParseElem(s, i, mem) ==
    LET v == ParseValue(s, i)
        e == SkipSpace(s, v.next)
        all == Append(mem, [key |-> <<>>, val |-> v.val])
    IN  IF v.err # "nil" THEN Failed(v.err)
        ELSE IF e > Len(s) THEN Failed(UnexpectedEOF)
        ELSE IF s[e] = "]" THEN Parsed(JValue("array", 0, <<>>, all), e + 1)
        ELSE IF s[e] # "," THEN Failed(SyntaxError)
        ELSE ParseElem(s, e + 1, all)

TypeError(kind, type) == "json: cannot unmarshal " \o kind \o " into Go value of type " \o type

\* Storing the members of an object into the map, in order; a value that is
\* no number and not null leaves 0 under its key and the first such error is kept.
RECURSIVE StoreMembers(_, _, _, _)
StoreMembers(mem, k, values, err) ==
    IF k > Len(mem) THEN [values |-> values, err |-> err]
    ELSE LET m == mem[k]
             x == IF m.val.kind = "number" THEN m.val.num ELSE 0
             bad == m.val.kind \notin {"number", "null"}
         IN  StoreMembers(mem, k + 1,
                          [key \in DOMAIN values \cup {m.key} |->
                              IF key = m.key THEN x ELSE values[key]],
                          IF bad /\ err = "nil" THEN TypeError(m.val.kind, "float64") ELSE err)

\* json.NewDecoder(bytes.NewReader(data)).Decode(&values), values a nil
\* map[string]float64.
Decode(data) ==
    LET i == SkipSpace(data, 1)
        r == ParseValue(data, i)
    IN  IF i > Len(data) THEN [values |-> <<>>, err |-> "EOF"]
        ELSE IF r.err # "nil" THEN [values |-> <<>>, err |-> r.err]
        ELSE IF r.val.kind = "null" THEN [values |-> <<>>, err |-> "nil"]
        ELSE IF r.val.kind = "object" THEN StoreMembers(r.val.mem, 1, <<>>, "nil")
        ELSE [values |-> <<>>, err |-> TypeError(r.val.kind, "map[string]float64")]

\* values[key]: the zero value when the key is absent (or the map is nil).
MapIndex(values, key) == IF key \in DOMAIN values THEN values[key] ELSE 0

UnmarshalJSON(recv, data) ==
    LET d == Decode(data)
    IN  IF d.err # "nil" THEN [p |-> recv, err |-> d.err]
        ELSE [p |-> NewPoint(MapIndex(d.values, KeyLat), MapIndex(d.values, KeyLon)),
              err |-> "nil"]

(***************************************************************************)
(* The inputs of UnmarshalJSON.                                            *)
(***************************************************************************)
Member(name, text) == Quoted(name) \o <<":">> \o text

RECURSIVE Join(_)
Join(texts) ==
    IF Len(texts) = 0 THEN <<>>
    ELSE IF Len(texts) = 1 THEN texts[1]
    ELSE texts[1] \o <<",">> \o Join(Tail(texts))

\* Values of each JSON type, for the member "x".
ExtraValues ==
    {<<"3">>, <<"\"", "s", "\"">>, <<"t", "r", "u", "e">>, <<"n", "u", "l", "l">>,
     <<"[", "1", "]">>, <<"{", "}">>}

\* Valid JSON objects whose "lat" and "lon", when present, are numbers, each
\* with the Lat and Lon it stands for: {"lat":a,"x":v,"lon":b} with every
\* member optional, and the texts MarshalJSON produces.
ObjectCases ==
    LET lats == {<<>>} \cup {<<Member(KeyLat, FormatFloat(7))>>}
        lons == {<<>>} \cup {<<Member(KeyLon, FormatFloat(-12))>>}
        extras == {<<>>} \cup {<<Member(KeyExtra, v)>> : v \in ExtraValues}
    IN  {[text |-> <<"{">> \o Join(a \o x \o b) \o <<"}">>,
          lat |-> IF a = <<>> THEN 0 ELSE 7,
          lon |-> IF b = <<>> THEN 0 ELSE -12] : a \in lats, x \in extras, b \in lons}
        \cup {[text |-> MarshalJSON(q).bytes, lat |-> q.Lat, lon |-> q.Lon] : q \in JsonPoints}

ObjectTexts == {c.text : c \in ObjectCases}

\* Valid JSON values that are no object.
NonObjectTexts ==
    {<<"n", "u", "l", "l">>, <<"3">>, <<"\"", "s", "\"">>, <<"t", "r", "u", "e">>,
     <<"[", "1", "]">>}

\* A valid object followed by bytes that are no JSON.
TrailingTexts == {t \o g : t \in ObjectTexts, g \in SeqsUpTo({"@"}, MaxTrail) \ {<<>>}}

\* Malformed texts: an object cut short, and objects with a byte missing or added.
MalformedTexts ==
    UNION {{SubSeq(MarshalJSON(q).bytes, 1, n) : n \in 0..(Len(MarshalJSON(q).bytes) - 1)} :
              q \in JsonPoints}
        \cup {<<"{">> \o Quoted(KeyLat) \o <<"7", "}">>,
              <<"{">> \o KeyLat \o <<":", "7", "}">>,
              <<"{">> \o Member(KeyLat, <<"7">>) \o <<",", "}">>,
              <<"@">>}

JsonInputs == ObjectTexts \cup NonObjectTexts \cup TrailingTexts \cup MalformedTexts

InitJSON ==
    /\ heap = <<>>
    /\ poly = NewPolygon(Slice(0, 0))
    /\ held = {}
    /\ built = <<>>
    /\ writes = 0
    /\ p \in JsonPoints
    /\ last = NoPointCall

CallMarshalJSON ==
    LET r == MarshalJSON(p)
    IN  /\ last' = [op |-> "MarshalJSON", data |-> r.bytes, err |-> r.err, before |-> p]
        /\ UNCHANGED <<heap, poly, held, built, writes, p>>

CallUnmarshalJSON(data) ==
    LET r == UnmarshalJSON(p, data)
    IN  /\ p' = r.p
        /\ last' = [op |-> "UnmarshalJSON", data |-> data, err |-> r.err, before |-> p]
        /\ UNCHANGED <<heap, poly, held, built, writes>>

NextJSON ==
    \/ CallMarshalJSON
    \/ \E data \in JsonInputs : CallUnmarshalJSON(data)

SpecJSON == InitJSON /\ [][NextJSON]_vars

(***************************************************************************)
(* PointAtDistanceAndBearing.                                              *)
(*                                                                         *)
(* Angles are counted in steps of 45 degrees = math.Pi/4 radians, so that  *)
(* the conversions between degrees and radians keep the count and math.Pi  *)
(* is 4 steps.  Latitudes, bearings and angular distances are multiples of *)
(* a quarter turn, where sin, cos, asin and atan2 are exact; longitudes    *)
(* are any number of steps.  The arithmetic is that of the reals.          *)
(***************************************************************************)
Pi == 4
MaxTurnSteps == 20   \* receiver longitudes are -MaxTurnSteps..MaxTurnSteps steps (+-900 degrees)
MaxQuarters == 3     \* distances of 0..MaxQuarters quarter circumferences, bearings likewise

QuarterTurn == Pi \div 2

\* math.Sin and math.Cos at a multiple of a quarter turn.
Sin(a) ==
    CASE a % (2 * Pi) = 0 -> 0
      [] a % (2 * Pi) = QuarterTurn -> 1
      [] a % (2 * Pi) = Pi -> 0
      [] a % (2 * Pi) = Pi + QuarterTurn -> -1

Cos(a) == Sin(a + QuarterTurn)

\* math.Asin at -1, 0, 1.
Asin(x) ==
    CASE x = -1 -> -QuarterTurn
      [] x = 0 -> 0
      [] x = 1 -> QuarterTurn

\* math.Atan2(y, x), in [-Pi, Pi]; Atan2(0, 0) = 0 and Atan2(0, x) = Pi for x < 0.
Atan2(y, x) ==
    CASE y = 0 /\ x >= 0 -> 0
      [] y = 0 /\ x < 0 -> Pi
      [] y > 0 /\ x = 0 -> QuarterTurn
      [] y < 0 /\ x = 0 -> -QuarterTurn
      [] y > 0 /\ x = y -> QuarterTurn \div 2
      [] y > 0 /\ x = -y -> Pi - QuarterTurn \div 2
      [] y < 0 /\ x = -y -> -(QuarterTurn \div 2)
      [] y < 0 /\ x = y -> -(Pi - QuarterTurn \div 2)

\* math.Mod(x, y) for y > 0: the remainder has the sign of x.
Mod(x, y) == IF x >= 0 THEN x % y ELSE -((-x) % y)

\* PointAtDistanceAndBearing; dist is the angular distance dist/EarthRadius
\* it stands for, in steps.
PointAtDistanceAndBearing(pt, dist, bearing) ==
    LET dr == dist
        lat1 == pt.Lat
        lng1 == pt.Lon
        lat2Part1 == Sin(lat1) * Cos(dr)
        lat2Part2 == Cos(lat1) * Sin(dr) * Cos(bearing)
        lat2 == Asin(lat2Part1 + lat2Part2)
        lon2Part1 == Sin(bearing) * Sin(dr) * Cos(lat1)
        lon2Part2 == Cos(dr) - (Sin(lat1) * Sin(lat2))
        lng2 == lng1 + Atan2(lon2Part1, lon2Part2)
    IN  [Lat |-> lat2, Lon |-> Mod(lng2 + 3 * Pi, 2 * Pi) - Pi]

QuarterAngles == {k * QuarterTurn : k \in 0..MaxQuarters}
ProjReceivers == [Lat : {-QuarterTurn, 0, QuarterTurn},
                  Lon : (-MaxTurnSteps)..MaxTurnSteps]

NoProjCall == [op |-> "none", dist |-> 0, bearing |-> 0, ret |-> Origin]

InitProjection ==
    /\ heap = <<>>
    /\ poly = NewPolygon(Slice(0, 0))
    /\ held = {}
    /\ built = <<>>
    /\ writes = 0
    /\ p \in ProjReceivers
    /\ last = NoProjCall

CallPointAtDistanceAndBearing(dist, bearing) ==
    /\ last' = [op |-> "PointAtDistanceAndBearing", dist |-> dist, bearing |-> bearing,
                ret |-> PointAtDistanceAndBearing(p, dist, bearing)]
    /\ UNCHANGED <<heap, poly, held, built, writes, p>>

NextProjection ==
    \E dist \in QuarterAngles, bearing \in QuarterAngles :
        CallPointAtDistanceAndBearing(dist, bearing)

SpecProjection == InitProjection /\ [][NextProjection]_vars

(***************************************************************************)
(* Properties of Polygon.                                                  *)
(***************************************************************************)

\* C1: a polygon of 0, 1 or 2 points contains no query point, and Contains
\* answers without indexing the point sequence; IsClosed is true exactly when
\* the polygon has 3 or more points.
C1_FewPointsContainNothing ==
    /\ (last.op = "Contains" /\ Len(last.points) < 3)
          => (last.ret = FALSE /\ ~last.indexed)
    /\ last.op = "IsClosed" => (last.ret <=> Len(last.points) >= 3)

C1_Witness ==
    /\ last.op = "Contains"
    /\ Len(last.points) = 2
    /\ last.points[1] # last.points[2]
    /\ last.ret = FALSE

\* C2 (as claimed): whatever the caller writes to the slice it passed to
\* NewPolygon or got from Points, the polygon's points stay what they were
\* when it was constructed.
C2_OwnsPointsByValue == PolygonPoints = built

\* C3: Contains is true for every point strictly inside an axis-aligned
\* rectangle and false for every point strictly outside it.
RectLo(c) == IF c[1] < c[3] THEN c[1] ELSE c[3]
RectHi(c) == IF c[1] < c[3] THEN c[3] ELSE c[1]
RectLats == <<built[1].Lat, built[2].Lat, built[3].Lat, built[4].Lat>>
RectLons == <<built[1].Lon, built[2].Lon, built[3].Lon, built[4].Lon>>
StrictlyInside(pt) ==
    /\ RectLo(RectLats) < pt.Lat /\ pt.Lat < RectHi(RectLats)
    /\ RectLo(RectLons) < pt.Lon /\ pt.Lon < RectHi(RectLons)
StrictlyOutside(pt) ==
    \/ pt.Lat < RectLo(RectLats) \/ pt.Lat > RectHi(RectLats)
    \/ pt.Lon < RectLo(RectLons) \/ pt.Lon > RectHi(RectLons)

C3_RectangleContains ==
    last.op = "Contains" =>
        /\ StrictlyInside(last.pt) => last.ret = TRUE
        /\ StrictlyOutside(last.pt) => last.ret = FALSE

C3_Witness ==
    /\ last.op = "Contains"
    /\ built[1].Lat > built[3].Lat
    /\ built[2].Lon = built[1].Lon
    /\ StrictlyInside(last.pt)
    /\ last.ret = TRUE

\* C10: Contains never divides by b.Lon - a.Lon = 0, and an edge with
\* a.Lon = b.Lon never tests true (never toggles the result).
C10_NoDivisionByZero ==
    last.op = "Contains" => (~last.divZero /\ ~last.vertToggle)

C10_Witness ==
    /\ last.op = "Contains"
    /\ Len(last.points) = 3
    /\ last.points[1].Lon = last.points[2].Lon
    /\ last.points[1].Lon = last.pt.Lon
    /\ last.points[1] # last.points[2]
    /\ last.ret = TRUE

(***************************************************************************)
(* Properties of the binary codec.                                         *)
(***************************************************************************)

\* C5: MarshalBinary returns no error and exactly 16 bytes, the 8 bytes of
\* Lat least significant first and then those of Lon; UnmarshalBinary of the
\* bytes of a Point q returns no error and leaves the receiver equal to q,
\* bit for bit, whatever the receiver held.
C5_BinaryRoundTrip ==
    /\ last.op = "MarshalBinary" =>
          /\ last.err = "nil"
          /\ Len(last.data) = 16
          /\ \A i \in 1..8 : /\ last.data[i] = last.before.Lat[9 - i]
                             /\ last.data[8 + i] = last.before.Lon[9 - i]
    /\ \A q \in BinPoints :
          (last.op = "UnmarshalBinary" /\ last.data = MarshalBinary(q).bytes)
              => (last.err = "nil" /\ p = q)

C5_Witness ==
    /\ last.op = "UnmarshalBinary"
    /\ last.data = MarshalBinary([Lat |-> F64Lat, Lon |-> F64Lon]).bytes
    /\ last.before = [Lat |-> F64NaN, Lon |-> F64Zero]
    /\ p = [Lat |-> F64Lat, Lon |-> F64Lon]

\* C6: on fewer than 16 bytes UnmarshalBinary returns an error and leaves
\* both fields of the receiver as they were.
C6_ShortInputLeavesReceiver ==
    (last.op = "UnmarshalBinary" /\ Len(last.data) < 16)
        => (last.err # "nil" /\ p = last.before)

C6_Witness ==
    /\ last.op = "UnmarshalBinary"
    /\ Len(last.data) = 15
    /\ SubSeq(last.data, 1, 8) = PutUint64(F64Lat)
    /\ last.before = [Lat |-> F64Lon, Lon |-> F64NaN]
    /\ last.err = "binary.Read failed: unexpected EOF"
    /\ p = last.before

(***************************************************************************)
(* Properties of PointAtDistanceAndBearing.                                *)
(***************************************************************************)

\* C9 (as claimed): whatever the receiver, the distance and the bearing, the
\* longitude of the returned Point is above -180 degrees and at most 180.
C9_LongitudeNormalised ==
    last.op = "PointAtDistanceAndBearing" => (-Pi < last.ret.Lon /\ last.ret.Lon <= Pi)

(***************************************************************************)
(* Properties of the JSON codec.                                           *)
(***************************************************************************)

\* The text {"lat":<Lat>,"lon":<Lon>} without any whitespace.
CompactText(pt) ==
    <<"{">> \o Quoted(KeyLat) \o <<":">> \o FormatFloat(pt.Lat) \o <<",">>
        \o Quoted(KeyLon) \o <<":">> \o FormatFloat(pt.Lon) \o <<"}">>

\* C4 (as claimed): MarshalJSON returns exactly {"lat":<Lat>,"lon":<Lon>},
\* with no whitespace character anywhere.
C4_MarshalJSONCompact ==
    last.op = "MarshalJSON" =>
        /\ last.data = CompactText(last.before)
        /\ \A i \in 1..Len(last.data) : last.data[i] # " "

\* C7 (as claimed): on every valid JSON object whose "lat" and "lon", when
\* present, are numbers, UnmarshalJSON returns no error whatever the other
\* members are, and sets Lat and Lon from "lat" and "lon", 0 for an absent key.
C7_ToleratesAnyObject ==
    \A c \in ObjectCases :
        (last.op = "UnmarshalJSON" /\ last.data = c.text)
            => (last.err = "nil" /\ p = NewPoint(c.lat, c.lon))

\* C8 (as claimed): UnmarshalJSON returns an error on every input that is
\* not exactly one valid JSON object: malformed text, an object followed by
\* bytes that are no JSON, and the values null, number, string, boolean, array.
C8_RejectsAllButOneObject ==
    (last.op = "UnmarshalJSON"
        /\ last.data \in MalformedTexts \cup TrailingTexts \cup NonObjectTexts)
        => last.err # "nil"

====
